---- MODULE Spec2Model ----
(***************************************************************************)
(* Model of src/app.py: the cached statistics provider get_lotto_data and  *)
(* the weighted draw generate_lotto_numbers.                               *)
(*                                                                         *)
(* Two specifications share the module:                                    *)
(*   Spec      callers of the cached get_lotto_data, the clock and the     *)
(*             remote site (the draw variables stay at their initial       *)
(*             values);                                                    *)
(*   SpecDraw  one or two calls of generate_lotto_numbers on a dataset     *)
(*             get_lotto_data can return, under a scripted random source.  *)
(***************************************************************************)
EXTENDS Integers, Sequences, FiniteSets

VARIABLES
    now,            \* wall clock, seconds
    cache,          \* st.cache_data entry of get_lotto_data(): None or [value, stored]
    pc,             \* per caller: "idle", "calling", "awaiting", "done", "raised"
    ret,            \* per caller: the value the last finished call returned
    how,            \* per caller: "none", "hit" (served from cache) or "fetched"
    resp,           \* per caller: the name of the response its last requests.get call met
    attemptsBy,          \* per caller: requests.get calls made by its current/last call
    attempts,       \* requests.get calls made so far (fetch attempts; a call that follows
                    \* redirects exchanges several HTTP messages and counts once)
    ticks,          \* clock advances so far
    df,             \* generate_lotto_numbers: the dataset argument
    is_backup,      \* the status get_lotto_data returned with df
    rng,            \* random source: [a, b, pos]; the pos-th random() is ((a + b*pos) % RandDen) / RandDen
    gpc,            \* generate_lotto_numbers: "call", "outer", "inner", "endset", "done", "error"
    results,        \* results
    weights,        \* weights
    numbers,        \* numbers
    current_numbers,
    current_weights,
    one_set,
    setNo,          \* iterations of the outer loop completed
    callNo,         \* 1 or 2: which call of generate_lotto_numbers this is
    reseeded,       \* TRUE when the second call runs on the rewound random source
    firstOutcome    \* [pc, results] of the first call, once a second call has begun

fetchVars == <<now, cache, pc, ret, how, resp, attemptsBy, attempts, ticks>>
drawVars == <<df, is_backup, rng, gpc, results, weights, numbers, current_numbers,
              current_weights, one_set, setNo, callNo, reseeded, firstOutcome>>
vars == <<fetchVars, drawVars>>

(***************************************************************************)
(* Bounds of the model.                                                    *)
(***************************************************************************)
NumCallers == 2
MaxAttempts == 2
MaxTicks == 2
RandBits == 3

(***************************************************************************)
(* Program constants.                                                      *)
(***************************************************************************)
TTL == 3600
smoothing_factor == 100
NumSets == 5
NumPicks == 7
NumMain == 6
PoolSize == 45

Callers == 1..NumCallers
None == [value |-> <<>>, stored |-> -1]

RECURSIVE Pow2(_)
Pow2(n) == IF n = 0 THEN 1 ELSE 2 * Pow2(n - 1)
RandDen == Pow2(RandBits)

(***************************************************************************)
(* Lists.                                                                  *)
(***************************************************************************)
Range(s) == {s[i] : i \in 1..Len(s)}

\* del lst[idx], idx 0-based
DelAt(lst, idx) == [i \in 1..(Len(lst) - 1) |-> IF i <= idx THEN lst[i] ELSE lst[i + 1]]

\* lst.index(x), 0-based; the caller guarantees x is in lst
IndexOf(lst, x) == (CHOOSE i \in 1..Len(lst) : lst[i] = x /\ \A j \in 1..(i - 1) : lst[j] # x) - 1

\* sorted(lst) on integers: insertion of the last element into the sorted rest
RECURSIVE sorted(_)
sorted(s) ==
    IF s = <<>> THEN <<>>
    ELSE LET rest == sorted(SubSeq(s, 1, Len(s) - 1))
             x == s[Len(s)]
             k == Cardinality({i \in 1..Len(rest) : rest[i] <= x})
         IN SubSeq(rest, 1, k) \o <<x>> \o SubSeq(rest, k + 1, Len(rest))

\* DataFrame.sort_values('number') with the default kind, a sort that is not
\* stable: the rows ascending by number, rows of the same number in an order
\* the call does not fix.  The set of the orders it can return: the last row
\* goes to any place among the rows of its number in a sorted rest.
RECURSIVE sort_values(_)
sort_values(s) ==
    IF s = <<>> THEN {<<>>}
    ELSE LET x == s[Len(s)]
         IN UNION {LET lo == Cardinality({i \in 1..Len(rest) : rest[i].number < x.number})
                       hi == Cardinality({i \in 1..Len(rest) : rest[i].number <= x.number})
                   IN {SubSeq(rest, 1, k) \o <<x>> \o SubSeq(rest, k + 1, Len(rest)) : k \in lo..hi}
                   : rest \in sort_values(SubSeq(s, 1, Len(s) - 1))}

\* DataFrame.dropna(): the rows without a NaN
RECURSIVE dropna(_)
dropna(s) ==
    IF s = <<>> THEN <<>>
    ELSE LET rest == dropna(SubSeq(s, 1, Len(s) - 1))
             x == s[Len(s)]
         IN IF x.number.k # "nan" /\ x.count.k # "nan" THEN Append(rest, x) ELSE rest

(***************************************************************************)
(* get_lotto_data                                                          *)
(***************************************************************************)
\* variant: two entries with their digits swapped (9 -> 154, 34 -> 109)
backup_counts_wrong ==
    << 186, 172, 174, 179, 163, 168, 172, 164, 154, 172,
       175, 185, 180, 178, 170, 172, 182, 186, 165, 175,
       169, 155, 160, 175, 165, 175, 185, 162, 155, 168,
       172, 165, 178, 109, 165, 168, 175, 165, 175, 180,
       155, 160, 182, 165, 182 >>

\* the embedded table, lines 50-56
backup_counts ==
    << 186, 172, 174, 179, 163, 168, 172, 164, 145, 172,
       175, 185, 180, 178, 170, 172, 182, 186, 165, 175,
       169, 155, 160, 175, 165, 175, 185, 162, 155, 168,
       172, 165, 178, 190, 165, 168, 175, 165, 175, 180,
       155, 160, 182, 165, 182 >>

\* pd.DataFrame({'number': range(1, 46), 'count': backup_counts})
df_backup == [i \in 1..Len(backup_counts) |-> [number |-> i, count |-> backup_counts[i]]]

\* A cell of a parsed HTML table: an integer or a piece of text.
IntCell(n) == [k |-> "int", v |-> n]
TextCell == [k |-> "text", v |-> 0]

\* pd.to_numeric(col, errors='coerce') on one cell: text becomes NaN
NaN == [k |-> "nan", v |-> 0]
to_numeric(cell) == IF cell.k = "int" THEN cell ELSE NaN

\* df.iloc[:, [0, 2]] with the columns renamed and coerced, lines 36-39
CleanRow(row) == [number |-> to_numeric(row[1]), count |-> to_numeric(row[3])]

\* astype(int) on a row without NaN
AsInt(r) == [number |-> r.number.v, count |-> r.count.v]

\* variant: the final sort_values is left out
CleanTableUnsorted(table) ==
    LET coerced == [i \in 1..Len(table) |-> CleanRow(table[i])]
        kept == dropna(coerced)
    IN {[i \in 1..Len(kept) |-> AsInt(kept[i])]}

\* df_clean.dropna().astype(int).sort_values('number'), line 42: the datasets
\* the expression can evaluate to
CleanTable(table) ==
    LET coerced == [i \in 1..Len(table) |-> CleanRow(table[i])]
        kept == dropna(coerced)
        ints == [i \in 1..Len(kept) |-> AsInt(kept[i])]
    IN sort_values(ints)

\* An exception is the ancestry of its class: the class first, then its bases
\* up to BaseException.  The ones the try block meets:
Timeout == <<"Timeout", "RequestException", "OSError", "Exception", "BaseException">>
ConnectionError == <<"ConnectionError", "RequestException", "OSError", "Exception", "BaseException">>
SSLError == <<"SSLError", "ConnectionError", "RequestException", "OSError", "Exception", "BaseException">>
TooManyRedirects == <<"TooManyRedirects", "RequestException", "OSError", "Exception", "BaseException">>
ValueError == <<"ValueError", "Exception", "BaseException">>
ImportError == <<"ImportError", "Exception", "BaseException">>
IndexError == <<"IndexError", "LookupError", "Exception", "BaseException">>

\* The try block, lines 25-42: how it ends, with the values it can return.
\* A response is
\*   [kind |-> "transport", exc]    requests.get raises
\*   [kind |-> "malformed"]         pd.read_html finds no table: ValueError
\*   [kind |-> "no_match"]          no table matches the marker: ValueError
\*   [kind |-> "no_parser"]         pd.read_html finds no HTML parser: ImportError
\*   [kind |-> "tables", dfs]       the tables pd.read_html returns
TryBody(r) ==
    IF r.kind = "transport" THEN [out |-> "raise", exc |-> r.exc]
    ELSE IF r.kind \in {"malformed", "no_match"} THEN [out |-> "raise", exc |-> ValueError]
    ELSE IF r.kind = "no_parser" THEN [out |-> "raise", exc |-> ImportError]
    ELSE IF Len(r.dfs) > 0
         THEN IF \E i \in 1..Len(r.dfs[1]) : Len(r.dfs[1][i]) < 3
              THEN [out |-> "raise", exc |-> IndexError]
              ELSE [out |-> "return", vals |-> {<<d, FALSE>> : d \in CleanTable(r.dfs[1])}]
         ELSE [out |-> "fall", exc |-> <<>>]

\* variant: the handler names the errors of requests only
CaughtTransportOnly(exc) == \E i \in 1..Len(exc) : exc[i] = "RequestException"

\* except Exception, line 44: the handler matches an exception whose class has
\* Exception among its ancestors (the class itself included)
Caught(exc) == \E i \in 1..Len(exc) : exc[i] = "Exception"

\* The function body, lines 19-64: the ways the call can end on response r,
\* each [raised, val], val = <<dataframe, is_backup>>
get_lotto_data(r) ==
    LET t == TryBody(r)
    IN IF t.out = "return" THEN {[raised |-> FALSE, val |-> v] : v \in t.vals}
       ELSE IF t.out = "raise" /\ ~Caught(t.exc) THEN {[raised |-> TRUE, val |-> <<>>]}
       ELSE {[raised |-> FALSE, val |-> <<df_backup, TRUE>>]}

(***************************************************************************)
(* The remote site: the responses the model draws from.                    *)
(***************************************************************************)
HeaderRow == <<TextCell, TextCell, TextCell>>
StatRow(n, c) == <<IntCell(n), TextCell, IntCell(c)>>
LiveCount(n) == ((n * n) % 5) * 40

\* a full table, header remnant first, numbers descending
FullTable == <<HeaderRow>> \o [i \in 1..PoolSize |-> StatRow(PoolSize + 1 - i, LiveCount(PoolSize + 1 - i))]
\* 40 valid rows; the counts of 41..45 are text
ShortTable == [i \in 1..PoolSize |-> IF i <= 40 THEN StatRow(i, LiveCount(i))
                                     ELSE <<IntCell(i), TextCell, TextCell>>]
\* 45 rows, the row of 45 replaced by a second row of 1
DupTable == [i \in 1..PoolSize |-> IF i = PoolSize THEN StatRow(1, LiveCount(1)) ELSE StatRow(i, LiveCount(i))]
\* 45 rows, the row of 45 replaced by a second row of 1 with another count
TiedTable == [i \in 1..PoolSize |-> IF i = PoolSize THEN StatRow(1, LiveCount(1) + 80) ELSE StatRow(i, LiveCount(i))]
\* nothing but header remnants
EmptyTable == <<HeaderRow, HeaderRow>>
\* five valid rows
TinyTable == [i \in 1..5 |-> StatRow(i, LiveCount(i))]
\* every count is -smoothing_factor
NegTable == [i \in 1..PoolSize |-> StatRow(i, 0 - smoothing_factor)]
\* two columns only
NarrowTable == [i \in 1..PoolSize |-> <<IntCell(i), IntCell(LiveCount(i))>>]

Transport(e) == [kind |-> "transport", exc |-> e, dfs |-> <<>>]
NoTables(k) == [kind |-> k, exc |-> <<>>, dfs |-> <<>>]
Tables(ts) == [kind |-> "tables", exc |-> <<>>, dfs |-> ts]

\* the responses by name
ResponseIds ==
    {"timeout", "refused", "tls", "redirects", "malformed", "no_match", "no_parser", "none_listed",
     "full", "short", "dup", "tied", "empty", "tiny", "negative", "narrow", "two_tables"}

Response(id) ==
    CASE id = "timeout" -> Transport(Timeout)
      [] id = "refused" -> Transport(ConnectionError)
      [] id = "tls" -> Transport(SSLError)
      [] id = "redirects" -> Transport(TooManyRedirects)
      [] id = "no_parser" -> NoTables("no_parser")
      [] id = "malformed" -> NoTables("malformed")
      [] id = "no_match" -> NoTables("no_match")
      [] id = "none_listed" -> Tables(<<>>)
      [] id = "full" -> Tables(<<FullTable>>)
      [] id = "short" -> Tables(<<ShortTable>>)
      [] id = "dup" -> Tables(<<DupTable>>)
      [] id = "tied" -> Tables(<<TiedTable>>)
      [] id = "empty" -> Tables(<<EmptyTable>>)
      [] id = "tiny" -> Tables(<<TinyTable>>)
      [] id = "negative" -> Tables(<<NegTable>>)
      [] id = "narrow" -> Tables(<<NarrowTable>>)
      [] id = "two_tables" -> Tables(<<FullTable, EmptyTable>>)

\* the ways get_lotto_data can end on each response
Outcomes == [id \in ResponseIds |-> get_lotto_data(Response(id))]

(***************************************************************************)
(* @st.cache_data(ttl=3600), line 13: the wrapper around get_lotto_data.   *)
(* The function takes no argument, so the cache holds one entry.  An entry *)
(* stored at time s is served while now < s + ttl; a call that finds no    *)
(* such entry runs the function body and stores what it returns.  The      *)
(* program adds no guard of its own around the call, and what the wrapper  *)
(* does with callers that miss at the same time is not fixed by it: the    *)
(* model lets each of them run the body, interleaved in any order.         *)
(***************************************************************************)
\* variant: no ttl
CacheNeverExpires(t) == cache # None
\* an entry stored at time s is served while t < s + ttl
CacheValid(t) == cache # None /\ t < cache.stored + TTL

FetchInit ==
    /\ now = 0
    /\ cache = None
    /\ pc = [p \in Callers |-> "idle"]
    /\ ret = [p \in Callers |-> <<>>]
    /\ how = [p \in Callers |-> "none"]
    /\ resp = [p \in Callers |-> "none"]
    /\ attemptsBy = [p \in Callers |-> 0]
    /\ attempts = 0
    /\ ticks = 0

\* The draw variables while no draw runs.
DrawIdle ==
    /\ df = <<>>
    /\ is_backup = FALSE
    /\ rng = [a |-> 0, b |-> 0, pos |-> 0]
    /\ gpc = "idle"
    /\ results = <<>>
    /\ weights = <<>>
    /\ numbers = <<>>
    /\ current_numbers = <<>>
    /\ current_weights = <<>>
    /\ one_set = <<>>
    /\ setNo = 0
    /\ callNo = 0
    /\ reseeded = FALSE
    /\ firstOutcome = <<>>

\* line 123: a script run calls get_lotto_data(); the wrapper reads the cache
\* and, on a miss, enters the function body
Call(p) ==
    /\ pc[p] = "idle"
    /\ attempts < MaxAttempts
    /\ attemptsBy' = [attemptsBy EXCEPT ![p] = 0]
    /\ resp' = [resp EXCEPT ![p] = "none"]
    /\ IF CacheValid(now)
       THEN /\ pc' = [pc EXCEPT ![p] = "done"]
            /\ ret' = [ret EXCEPT ![p] = cache.value]
            /\ how' = [how EXCEPT ![p] = "hit"]
       ELSE /\ pc' = [pc EXCEPT ![p] = "calling"]
            /\ ret' = [ret EXCEPT ![p] = <<>>]
            /\ how' = [how EXCEPT ![p] = "none"]
    /\ UNCHANGED <<now, cache, attempts, ticks, drawVars>>

\* line 27: requests.get(url, headers=headers, timeout=5, verify=False) is called:
\* one fetch attempt, whatever the number of HTTP messages it exchanges
Request(p) ==
    /\ pc[p] = "calling"
    /\ pc' = [pc EXCEPT ![p] = "awaiting"]
    /\ attempts' = attempts + 1
    /\ attemptsBy' = [attemptsBy EXCEPT ![p] = attemptsBy[p] + 1]
    /\ UNCHANGED <<now, cache, ret, how, resp, ticks, drawVars>>

\* lines 27-64: the requests.get call ends with response r, the body returns (or
\* raises) in one of the ways it can, and the wrapper stores the returned value
Respond(p) ==
    /\ pc[p] = "awaiting"
    /\ \E r \in ResponseIds :
         \E o \in Outcomes[r] :
            /\ resp' = [resp EXCEPT ![p] = r]
            /\ IF o.raised
               THEN /\ pc' = [pc EXCEPT ![p] = "raised"]
                    /\ UNCHANGED <<cache, ret, how>>
               ELSE /\ pc' = [pc EXCEPT ![p] = "done"]
                    /\ cache' = [value |-> o.val, stored |-> now]
                    /\ ret' = [ret EXCEPT ![p] = o.val]
                    /\ how' = [how EXCEPT ![p] = "fetched"]
    /\ UNCHANGED <<now, attemptsBy, attempts, ticks, drawVars>>

\* the script run ends; the next one may call again
Finish(p) ==
    /\ pc[p] = "done"
    /\ pc' = [pc EXCEPT ![p] = "idle"]
    /\ ret' = [ret EXCEPT ![p] = <<>>]
    /\ how' = [how EXCEPT ![p] = "none"]
    /\ resp' = [resp EXCEPT ![p] = "none"]
    /\ attemptsBy' = [attemptsBy EXCEPT ![p] = 0]
    /\ UNCHANGED <<now, cache, attempts, ticks, drawVars>>

\* time passes
Tick ==
    /\ ticks < MaxTicks
    /\ ticks' = ticks + 1
    /\ \E d \in {1, TTL - 1} : now' = now + d
    /\ UNCHANGED <<cache, pc, ret, how, resp, attemptsBy, attempts, drawVars>>

Init == FetchInit /\ DrawIdle

Next ==
    \/ \E p \in Callers : Call(p)
    \/ \E p \in Callers : Request(p)
    \/ \E p \in Callers : Respond(p)
    \/ \E p \in Callers : Finish(p)
    \/ Tick

Spec == Init /\ [][Next]_vars

(***************************************************************************)
(* generate_lotto_numbers                                                  *)
(***************************************************************************)
\* random.random() as the fraction RandomNum / RandDen, 0 <= RandomNum < RandDen.
\* A random source is scripted by its first value a and its stride b.
Strides == {0, 1, 3}
RandomNum == (rng.a + rng.b * rng.pos) % RandDen

\* itertools.accumulate(weights)
RECURSIVE accumulate(_)
accumulate(w) ==
    IF w = <<>> THEN <<>>
    ELSE LET rest == accumulate(SubSeq(w, 1, Len(w) - 1))
         IN Append(rest, (IF rest = <<>> THEN 0 ELSE rest[Len(rest)]) + w[Len(w)])

\* bisect.bisect_right(a, x, lo, hi) for x = num / den, indices 0-based
RECURSIVE bisect(_, _, _, _, _)
bisect(a, num, den, lo, hi) ==
    IF lo < hi
    THEN LET mid == (lo + hi) \div 2
         IN IF num < a[mid + 1] * den
            THEN bisect(a, num, den, lo, mid)
            ELSE bisect(a, num, den, mid + 1, hi)
    ELSE lo

\* variant: no check of the total weight
choicesUnchecked(population, w, num) ==
    LET n == Len(population)
        cum_weights == accumulate(w)
    IN IF n = 0 THEN [raised |-> TRUE, exc |-> "IndexError", picked |-> 0]
       ELSE [raised |-> FALSE, exc |-> "",
             picked |-> population[bisect(cum_weights, num * cum_weights[n], RandDen, 0, n - 1) + 1]]

\* random.choices(population, weights=weights, k=1)[0] with random() = num / RandDen:
\* x = random() * total, picked = population[bisect(cum_weights, x, 0, n - 1)]
choices(population, w, num) ==
    LET n == Len(population)
        cum_weights == accumulate(w)
    IN IF Len(cum_weights) # n THEN [raised |-> TRUE, exc |-> "ValueError", picked |-> 0]
       ELSE IF n = 0 THEN [raised |-> TRUE, exc |-> "IndexError", picked |-> 0]
       ELSE LET total == cum_weights[n]
            IN IF total <= 0 THEN [raised |-> TRUE, exc |-> "ValueError", picked |-> 0]
               ELSE [raised |-> FALSE, exc |-> "",
                     picked |-> population[bisect(cum_weights, num * total, RandDen, 0, n - 1) + 1]]

\* variant: the smoothing subtracted
WeightMinus(count) == count - smoothing_factor
\* line 75: count + smoothing_factor
Weight(count) == count + smoothing_factor

\* variant: the list survives from call to call
ResultsKept == results
\* line 70: results = []
InitialResults == <<>>

\* lines 79-80: list(numbers), list(weights)
FreshPool == [n |-> numbers, w |-> weights]

\* variants: nothing removed; the weight removed at position 0
RemoveNothing(picked) == [n |-> current_numbers, w |-> current_weights]
RemoveWeightFirst(picked) ==
    [n |-> DelAt(current_numbers, IndexOf(current_numbers, picked)),
     w |-> DelAt(current_weights, 0)]
\* lines 88-90: idx = current_numbers.index(picked); del both entries
RemovePicked(picked) ==
    LET idx == IndexOf(current_numbers, picked)
    IN [n |-> DelAt(current_numbers, idx), w |-> DelAt(current_weights, idx)]

\* lines 92-94: (sorted(one_set[:6]), one_set[6])
MakeResult(picks) == <<sorted(SubSeq(picks, 1, NumMain)), picks[NumPicks]>>

DrawInit ==
    /\ \E r \in ResponseIds :
         \E o \in Outcomes[r] :
            /\ ~o.raised
            /\ df = o.val[1]
            /\ is_backup = o.val[2]
    /\ rng \in [a : 0..(RandDen - 1), b : Strides, pos : {0}]
    /\ gpc = "call"
    /\ results = <<>>
    /\ weights = <<>>
    /\ numbers = <<>>
    /\ current_numbers = <<>>
    /\ current_weights = <<>>
    /\ one_set = <<>>
    /\ setNo = 0
    /\ callNo = 1
    /\ reseeded = FALSE
    /\ firstOutcome = <<>>

\* lines 69-76: entry
GenCall ==
    /\ gpc = "call"
    /\ results' = InitialResults
    /\ weights' = [i \in 1..Len(df) |-> Weight(df[i].count)]
    /\ numbers' = [i \in 1..Len(df) |-> df[i].number]
    /\ setNo' = 0
    /\ gpc' = "outer"
    /\ UNCHANGED <<df, is_backup, rng, current_numbers, current_weights, one_set,
                   callNo, reseeded, firstOutcome, fetchVars>>

\* lines 78-81: an iteration of the outer loop begins
SetBegin ==
    /\ gpc = "outer"
    /\ setNo < NumSets
    /\ current_numbers' = FreshPool.n
    /\ current_weights' = FreshPool.w
    /\ one_set' = <<>>
    /\ gpc' = "inner"
    /\ UNCHANGED <<df, is_backup, rng, results, weights, numbers, setNo,
                   callNo, reseeded, firstOutcome, fetchVars>>

\* lines 83-90: one iteration of the inner loop
Pick ==
    /\ gpc = "inner"
    /\ LET c == choices(current_numbers, current_weights, RandomNum)
       IN IF c.raised
          THEN /\ gpc' = "error"
               /\ UNCHANGED <<rng, one_set, current_numbers, current_weights>>
          ELSE LET pool == RemovePicked(c.picked)
               IN /\ one_set' = Append(one_set, c.picked)
                  /\ current_numbers' = pool.n
                  /\ current_weights' = pool.w
                  /\ rng' = [rng EXCEPT !.pos = rng.pos + 1]
                  /\ gpc' = IF Len(one_set) + 1 = NumPicks THEN "endset" ELSE "inner"
    /\ UNCHANGED <<df, is_backup, results, weights, numbers, setNo,
                   callNo, reseeded, firstOutcome, fetchVars>>

\* lines 92-94: the set is split, sorted and appended
SetEnd ==
    /\ gpc = "endset"
    /\ results' = Append(results, MakeResult(one_set))
    /\ setNo' = setNo + 1
    /\ gpc' = "outer"
    /\ UNCHANGED <<df, is_backup, rng, weights, numbers, current_numbers, current_weights,
                   one_set, callNo, reseeded, firstOutcome, fetchVars>>

\* line 96: return results
Return ==
    /\ gpc = "outer"
    /\ setNo = NumSets
    /\ gpc' = "done"
    /\ UNCHANGED <<df, is_backup, rng, results, weights, numbers, current_numbers,
                   current_weights, one_set, setNo, callNo, reseeded, firstOutcome, fetchVars>>

\* line 139: the button is pressed again on the same dataset; the random source
\* either goes on where it stood or was seeded back to where the first call began
Again ==
    /\ gpc \in {"done", "error"}
    /\ callNo = 1
    /\ callNo' = 2
    /\ firstOutcome' = <<gpc, results>>
    /\ \E rs \in BOOLEAN :
         /\ reseeded' = rs
         /\ rng' = IF rs THEN [rng EXCEPT !.pos = 0] ELSE rng
    /\ gpc' = "call"
    /\ UNCHANGED <<df, is_backup, results, weights, numbers, current_numbers,
                   current_weights, one_set, setNo, fetchVars>>

InitDraw == FetchInit /\ DrawInit

NextDraw ==
    \/ GenCall
    \/ SetBegin
    \/ Pick
    \/ SetEnd
    \/ Return
    \/ Again

SpecDraw == InitDraw /\ [][NextDraw]_vars

(***************************************************************************)
(* Properties.                                                             *)
(***************************************************************************)
\* the dataset invariant of the specification: 45 records, the numbers 1..45,
\* counts that are non-negative integers
Valid45(d) ==
    /\ Len(d) = 45
    /\ {d[i].number : i \in 1..Len(d)} = 1..45
    /\ \A i \in 1..Len(d) : d[i].count \in Nat

\* one result of a batch: 6 distinct main numbers in 1..45, ascending, and a
\* bonus number in 1..45 that is none of them
GoodResult(res) ==
    /\ Len(res) = 2
    /\ Len(res[1]) = 6
    /\ \A i \in 1..6 : res[1][i] \in 1..45
    /\ \A i \in 1..5 : res[1][i] < res[1][i + 1]
    /\ res[2] \in 1..45
    /\ \A i \in 1..6 : res[1][i] # res[2]

RECURSIVE SumSeq(_)
SumSeq(s) == IF s = <<>> THEN 0 ELSE s[Len(s)] + SumSeq(SubSeq(s, 1, Len(s) - 1))

CountOf(n) == df[CHOOSE i \in 1..Len(df) : df[i].number = n].count

\* C1: on a dataset of 45 records with the numbers 1..45 and non-negative
\* counts, whatever the random choices, generate_lotto_numbers does not fail and
\* returns exactly 5 results, each with 6 pairwise distinct main numbers in
\* 1..45 in ascending order and a bonus number in 1..45 that is none of them.
C1_BatchShape ==
    Valid45(df) =>
        /\ gpc # "error"
        /\ \A i \in 1..Len(results) : GoodResult(results[i])
        /\ gpc = "done" => Len(results) = 5

\* a finished batch on a valid dataset whose last set was drawn out of order
C1_Witness ==
    /\ Valid45(df)
    /\ gpc = "done"
    /\ callNo = 1
    /\ Len(results) = 5
    /\ results[5][1] # SubSeq(one_set, 1, 6)
    /\ results[5][2] < results[5][1][6]

\* C9: within a set, after k picks the pool holds exactly the 45 - k numbers not
\* yet picked, in dataset order, each paired with its original weight count + 100;
\* every set starts from the full pool; the lists taken from the dataset stay
\* as they were computed.
C9_PoolAfterPicks ==
    (Valid45(df) /\ gpc \in {"inner", "endset"}) =>
        /\ Len(one_set) <= 7
        /\ Len(current_numbers) = 45 - Len(one_set)
        /\ current_numbers = SelectSeq(numbers, LAMBDA x : x \notin Range(one_set))
        /\ Len(current_weights) = Len(current_numbers)
        /\ \A i \in 1..Len(current_numbers) : current_weights[i] = CountOf(current_numbers[i]) + 100
        /\ numbers = [i \in 1..45 |-> df[i].number]
        /\ weights = [i \in 1..45 |-> df[i].count + 100]

\* the third set of a batch on a live dataset after 7 picks, and the pool at
\* 38 entries
C9_Witness ==
    /\ Valid45(df)
    /\ ~is_backup
    /\ gpc = "endset"
    /\ setNo = 2
    /\ Len(one_set) = 7
    /\ Len(current_numbers) = 38
    /\ one_set[1] # numbers[1]

\* C10: every weight is its count plus 100, so a strictly higher count gives a
\* strictly higher weight; with non-negative counts every weight is at least
\* 100, and on a 45-record dataset the pool's total weight is strictly
\* positive at each of the 7 picks.
C10_Weights ==
    gpc \in {"outer", "inner", "endset", "done", "error"} =>
        /\ Len(weights) = Len(df)
        /\ \A i \in 1..Len(df) : weights[i] = df[i].count + 100
        /\ \A i, j \in 1..Len(df) : df[i].count > df[j].count => weights[i] > weights[j]
        /\ (\A i \in 1..Len(df) : df[i].count >= 0) => \A i \in 1..Len(df) : weights[i] >= 100
        /\ (Valid45(df) /\ gpc = "inner") => (Len(one_set) < 7 /\ SumSeq(current_weights) > 0)

\* the seventh pick is due on a valid dataset with unequal counts, one of them 0
C10_Witness ==
    /\ Valid45(df)
    /\ gpc = "inner"
    /\ Len(one_set) = 6
    /\ \E i, j \in 1..45 : df[i].count = 0 /\ df[j].count > 0 /\ weights[i] < weights[j]

\* C8: a second run on the same dataset that receives the same sequence of
\* random choices ends as the first did, with the same batch; a batch uses
\* exactly 35 random choices.
C8_Deterministic ==
    /\ (callNo = 2 /\ reseeded /\ gpc \in {"done", "error"}) => <<gpc, results>> = firstOutcome
    /\ (gpc = "done" /\ (callNo = 1 \/ reseeded)) => rng.pos = 35

\* a second, reseeded run on a valid dataset has returned its batch, under a
\* random source that is not constant
C8_Witness ==
    /\ callNo = 2
    /\ reseeded
    /\ gpc = "done"
    /\ Valid45(df)
    /\ rng.b # 0
    /\ Len(results) = 5
    /\ results[1] # results[2]

\* C6 as stated: a dataset with a record count other than 45, or with weights
\* that sum to zero, never yields a batch.
C6_Original ==
    (Len(df) # 45 \/ SumSeq([i \in 1..Len(df) |-> df[i].count + 100]) = 0) => gpc # "done"

\* C6 amended: a dataset with fewer than 7 records, or with weights that sum to
\* zero, never yields a batch or a result; a dataset with at least 7 records
\* whose weights are all positive never fails and yields 5 results, whatever
\* its record count.
C6_Amended ==
    /\ (Len(df) < 7 \/ SumSeq([i \in 1..Len(df) |-> df[i].count + 100]) = 0) =>
          (gpc # "done" /\ (gpc # "call" => results = <<>>))
    /\ (Len(df) >= 7 /\ \A i \in 1..Len(df) : df[i].count + 100 > 0) =>
          (gpc # "error" /\ (gpc = "done" => Len(results) = 5))

\* the draw has failed on a 5-record dataset once its pool ran empty
C6_Witness ==
    /\ Len(df) = 5
    /\ gpc = "error"
    /\ Len(one_set) = 5
    /\ current_numbers = <<>>

Failures == {"timeout", "refused", "tls", "redirects", "malformed", "no_match", "no_parser"}

\* C2: get_lotto_data never raises to its caller; after a transport error
\* (timeout, refused connection, TLS failure, too many redirects), malformed
\* HTML, a page with no table matching the marker or a missing HTML parser, it
\* returns the embedded table with is_backup = True.
C2_NeverRaises ==
    \A p \in Callers :
        /\ pc[p] # "raised"
        /\ (pc[p] = "done" /\ how[p] = "fetched" /\ resp[p] \in Failures) =>
              (ret[p] = <<df_backup, TRUE>> /\ Len(ret[p][1]) = 45)

\* one caller's request timed out, another's found no matching table, and both
\* were handed the embedded table
C2_Witness ==
    \E p, q \in Callers :
        /\ pc[p] = "done" /\ how[p] = "fetched" /\ resp[p] = "timeout"
        /\ pc[q] = "done" /\ how[q] = "fetched" /\ resp[q] = "no_match"
        /\ ret[p] = ret[q]
        /\ ret[p][2]

\* C3 as stated: every dataset get_lotto_data returns has 45 records with the
\* numbers 1..45 and non-negative counts.
C3_Original ==
    \A p \in Callers : pc[p] = "done" => Valid45(ret[p][1])

\* the rows of a table whose first and third cells are both numeric
NumericRows(t) == {i \in 1..Len(t) : Len(t[i]) >= 3 /\ t[i][1].k = "int" /\ t[i][3].k = "int"}

\* dataset d holds exactly the numeric rows of table t
HoldsNumericRows(d, t) ==
    /\ Len(d) = Cardinality(NumericRows(t))
    /\ \A i \in NumericRows(t) :
          \E j \in 1..Len(d) : d[j] = [number |-> t[i][1].v, count |-> t[i][3].v]
    /\ \A j \in 1..Len(d) :
          \E i \in NumericRows(t) : d[j] = [number |-> t[i][1].v, count |-> t[i][3].v]

\* per response: every dataset returned with is_backup = False holds the
\* numeric rows of the response's first table
LiveRowsKept ==
    [id \in ResponseIds |->
        \A o \in Outcomes[id] :
            (~o.raised /\ ~o.val[2]) => HoldsNumericRows(o.val[1], Response(id).dfs[1])]

\* C3 amended: a dataset returned with is_backup = True has 45 records with the
\* numbers 1..45 and non-negative counts; a dataset returned with is_backup =
\* False holds exactly the rows of the first table whose number and count cells
\* are both numeric, ascending by number, however many they are.
C3_Amended ==
    \A p \in Callers :
        pc[p] = "done" =>
            /\ ret[p][2] => Valid45(ret[p][1])
            /\ \A i \in 1..(Len(ret[p][1]) - 1) : ret[p][1][i].number <= ret[p][1][i + 1].number
            /\ (how[p] = "fetched" /\ ~ret[p][2]) =>
                  (ret[p] \in {o.val : o \in Outcomes[resp[p]]} /\ LiveRowsKept[resp[p]])

\* a live dataset of 40 records was returned, and another caller was handed a
\* full live dataset read from a table listed in descending order
C3_Witness ==
    \E p, q \in Callers :
        /\ pc[p] = "done" /\ how[p] = "fetched" /\ resp[p] = "short"
        /\ ~ret[p][2] /\ Len(ret[p][1]) = 40
        /\ pc[q] = "done" /\ how[q] = "fetched" /\ resp[q] = "full"
        /\ Valid45(ret[q][1])

\* C7: the embedded table handed out on a fallback return has exactly 45
\* records, the numbers 1..45 in ascending order, non-negative integer counts,
\* 190 for number 34 and 145 for number 9, and is the same on every return.
C7_FallbackTable ==
    \A p \in Callers :
        (pc[p] = "done" /\ ret[p][2]) =>
            LET t == ret[p][1]
            IN /\ Len(t) = 45
               /\ \A i \in 1..45 : t[i].number = i /\ t[i].count \in Nat
               /\ t[34].count = 190
               /\ t[9].count = 145
               /\ \A q \in Callers : (pc[q] = "done" /\ ret[q][2]) => ret[q][1] = t

\* the embedded table was returned after a TLS failure and served again from
\* the cache
C7_Witness ==
    \E p, q \in Callers :
        /\ pc[p] = "done" /\ how[p] = "fetched" /\ resp[p] = "tls" /\ ret[p][2]
        /\ pc[q] = "done" /\ how[q] = "hit" /\ ret[q][2]

\* C4: a call made less than 3600 seconds after the cached result was stored
\* returns that result, LIVE or FALLBACK, and makes no fetch attempt; a result is never
\* served from an entry older than 3600 seconds; a call that runs the function
\* makes exactly one fetch attempt (one requests.get call, no retry), and what it returns, a FALLBACK result included,
\* replaces the cached value.
C4_CacheWindow ==
    [][\A p \in Callers :
          /\ (pc[p] = "idle" /\ pc'[p] # "idle" /\ cache # None /\ now - cache.stored < 3600) =>
                /\ pc'[p] = "done"
                /\ ret'[p] = cache.value
                /\ cache' = cache
                /\ attempts' = attempts
          /\ (pc[p] # "done" /\ pc'[p] = "done" /\ how'[p] = "hit") =>
                /\ cache # None
                /\ now - cache.stored <= 3600
                /\ ret'[p] = cache.value
                /\ attempts' = attempts
                /\ attemptsBy'[p] = 0
          /\ (pc[p] = "idle" /\ pc'[p] # "idle" /\ (cache = None \/ now - cache.stored > 3600)) =>
                pc'[p] = "calling"
          /\ (pc[p] # "done" /\ pc'[p] = "done" /\ how'[p] = "fetched") =>
                /\ attemptsBy'[p] = 1
                /\ cache' = [value |-> ret'[p], stored |-> now]
                /\ resp'[p] \in Failures => cache'.value[2]
          /\ attemptsBy'[p] <= 1
          /\ attempts' <= attempts + 1
      ]_vars

\* a FALLBACK result fetched at time 0 was served from the cache 3599 seconds
\* later, and a call after expiry fetched again and replaced it
C4_Witness ==
    \E p, q \in Callers :
        /\ pc[p] = "done" /\ how[p] = "hit" /\ ret[p][2]
        /\ pc[q] = "done" /\ how[q] = "fetched" /\ ~ret[q][2]
        /\ attempts = 2
        /\ cache = [value |-> ret[q], stored |-> 3600]

====
